---- MODULE Spec2Model ----
(***************************************************************************)
(* mkconf: the change-monitoring and change-diffing engine.                *)
(*                                                                         *)
(* The module models the configuration list (ConfigList / ConfigSettings), *)
(* the per-configuration monitor goroutine started by                      *)
(* StartChangeMonitoring, the poll tick checkConfigChanges, the update     *)
(* path UpdateConfig, the change log, and the structural differ            *)
(* compareFields.  Record timestamps (time.Now) are left out: no property  *)
(* stated below reads them.                                                *)
(***************************************************************************)
EXTENDS Integers, Sequences, FiniteSets, TLC

VARIABLES
    \* ---- ConfigManager / ConfigList ----
    configs,          \* ConfigManager.configs: names registered with the manager
    settings,         \* ConfigList.settings: names that have a ConfigSettings entry
    Reader,           \* ConfigSettings.Reader per name ("nil" or a reader kind)
    enableChangeValidation, \* ConfigSettings.enableChangeValidation per name
    enableChangeTracking,   \* ConfigSettings.enableChangeTracking per name
    lastConfigHash,   \* ConfigSettings.lastConfigHash per name
    configMAP,        \* ConfigSettings.configMAP per name (untyped snapshot)
    target,           \* content generation held by the typed target of a name
    ctx,              \* ConfigSettings.ctx / cancel per name: "nil", "live", "cancelled"
    waitGroup,        \* ConfigSettings.waitGroup counter per name
    mu,               \* ConfigSettings.mu per name: 0 or the holding task
    readerMu,         \* the reader's own mutex per name: "free" or the holder
    changeLogs,       \* ConfigList.changeLogs: name -> sequence of ConfigChangeLog
    logMutex,         \* ConfigList.logMutex: 0 or the holding task
    settingsMutex,    \* ConfigList.settingsMutex: "free" or the holding caller
    \* ---- environment and actors ----
    file,             \* content of the configuration file of each name
    task,             \* monitor goroutines (one slot per spawned goroutine)
    caller,           \* threads of the application calling the public interface
    crashed,          \* "no", or the function in which the process panicked
    ret,              \* the error returned by the last call of each thread whose
                      \* results are observed: "none", "nil" or "err"
    \* ---- the differ applied to arbitrary inputs ----
    dOld, dNew,       \* the two interface{} arguments of compareFields
    dChanges,         \* the *changes slice after the call
    dRet,             \* "none" before the call, then "nil" or "err"
    \* ---- reader selection and the fingerprint applied on their own ----
    dTag,             \* a format tag (configType), as a sequence of characters
    dReader,          \* "none" before checkReader is called, then its result
    dProbes           \* the probes of the file taken so far: content and result

monVars == <<configs, settings, Reader, enableChangeValidation, enableChangeTracking,
             lastConfigHash, configMAP, target, ctx, waitGroup, mu, readerMu,
             changeLogs, logMutex, settingsMutex, file, task, caller, crashed, ret>>
diffVars == <<dOld, dNew, dChanges, dRet, dTag, dReader, dProbes>>
vars == <<monVars, diffVars>>

----------------------------------------------------------------------------
(* Values of a decoded configuration (interface{} values).                 *)
(* A value is a record [kind, v]; v is always a sequence of numbers, so    *)
(* that any two values can be compared.                                    *)

Nil == [kind |-> "nil", v |-> << >>]
Num(i) == [kind |-> "num", v |-> <<i>>]
List(s) == [kind |-> "list", v |-> s]

\* reflect.DeepEqual on two interface{} values: same dynamic type, then
\* recursively equal contents.
DeepEqualNilMutant(x, y) == x.kind = y.kind /\ x.v = y.v /\ x.kind # "nil"
DeepEqual(x, y) == x.kind = y.kind /\ x.v = y.v

Keys == {"a", "b", "c"}
Values == {Num(1), Num(2), Num(3), Num(4), List(<<1>>), Nil}

EmptyFn == [k \in {} |-> Nil]
\* all map[string]interface{} values over Keys and Values
Mappings == UNION {[D -> Values] : D \in SUBSET Keys}

\* interface{} arguments: a non-nil map, a nil map, or something that is not a map
MapVal(m) == [kind |-> "map", m |-> m]
NilMap == [kind |-> "nilmap", m |-> EmptyFn]
NotAMap == [kind |-> "string", m |-> EmptyFn]
IsMapType(x) == x.kind \in {"map", "nilmap"}

\* the iteration orders a Go range over the keys of m can take
Perms(S) == {s \in [1..Cardinality(S) -> S] : \A i, j \in 1..Cardinality(S) : i # j => s[i] # s[j]}

ConfigChangeLog(name, key, old, new) ==
    [ConfigName |-> name, FieldName |-> key, OldValue |-> old, NewValue |-> new]

\* first loop of compareFields: for key, oldValue := range oldMap
RECURSIVE rangeOld(_, _, _, _, _)
rangeOld(name, oldMap, newMap, order, i) ==
    IF i > Len(order) THEN << >>
    ELSE LET key == order[i]
             rest == rangeOld(name, oldMap, newMap, order, i + 1)
         IN IF key \in DOMAIN newMap
            THEN IF ~DeepEqual(oldMap[key], newMap[key])
                 THEN <<ConfigChangeLog(name, key, oldMap[key], newMap[key])>> \o rest
                 ELSE rest
            ELSE <<ConfigChangeLog(name, key, oldMap[key], Nil)>> \o rest

\* second loop of compareFields: for key, newValue := range newMap
RECURSIVE rangeNew(_, _, _, _, _)
rangeNewSkipMutant(name, oldMap, newMap, order, i) ==
    IF i >= Len(order) THEN << >>
    ELSE LET key == order[i]
             rest == rangeNew(name, oldMap, newMap, order, i + 1)
         IN IF key \notin DOMAIN oldMap
            THEN <<ConfigChangeLog(name, key, Nil, newMap[key])>> \o rest
            ELSE rest
rangeNew(name, oldMap, newMap, order, i) ==
    IF i > Len(order) THEN << >>
    ELSE LET key == order[i]
             rest == rangeNew(name, oldMap, newMap, order, i + 1)
         IN IF key \notin DOMAIN oldMap
            THEN <<ConfigChangeLog(name, key, Nil, newMap[key])>> \o rest
            ELSE rest

\* compareFields(configName, _, oldConfig, newConfig, &changes): the records
\* appended to changes and the error returned, for one pair of iteration orders
compareFieldsAdditionsFirstMutant(name, oldConfig, newConfig, orderOld, orderNew) ==
    IF ~IsMapType(oldConfig) \/ ~IsMapType(newConfig)
    THEN [err |-> TRUE, changes |-> << >>]
    ELSE [err |-> FALSE,
          changes |-> rangeNew(name, oldConfig.m, newConfig.m, orderNew, 1)
                      \o rangeOld(name, oldConfig.m, newConfig.m, orderOld, 1)]
compareFields(name, oldConfig, newConfig, orderOld, orderNew) ==
    IF ~IsMapType(oldConfig) \/ ~IsMapType(newConfig)
    THEN [err |-> TRUE, changes |-> << >>]
    ELSE [err |-> FALSE,
          changes |-> rangeOld(name, oldConfig.m, newConfig.m, orderOld, 1)
                      \o rangeNew(name, oldConfig.m, newConfig.m, orderNew, 1)]

\* every result compareFields can produce (one per pair of iteration orders)
compareFieldsResults(name, oldConfig, newConfig) ==
    {compareFields(name, oldConfig, newConfig, oo, on) :
        oo \in Perms(DOMAIN oldConfig.m), on \in Perms(DOMAIN newConfig.m)}

DiffName == "a"
DiffInputs == {MapVal(m) : m \in Mappings} \cup {NilMap, NotAMap}

----------------------------------------------------------------------------
(* The registry, the files and the actors.                                 *)

MaxTasks == 1      \* goroutine slots: monitors alive at the same time
MaxLog == 1        \* records kept in the change log of one name

Names == {"a", "b"}
Callers == {"c1", "c2"}
Tasks == 1..MaxTasks

\* file contents: two parsable generations, an unparsable file, a file being
\* rewritten (truncated by WriteFile), and no file at all
Contents == {"M1", "M2"}
FileStates == Contents \cup {"garbage", "partial", "missing"}
ContentMap(f) == IF f = "M1" THEN [k \in {"a"} |-> Num(1)]
                 ELSE [k \in {"a"} |-> Num(2)]

\* format tags are strings, written as sequences of characters
DotJson == <<".", "j", "s", "o", "n">>
DotXml == <<".", "x", "m", "l">>
DotYaml == <<".", "y", "a", "m", "l">>
DotYml == <<".", "y", "m", "l">>
DotToml == <<".", "t", "o", "m", "l">>
DotIni == <<".", "i", "n", "i">>
DotCfg == <<".", "c", "f", "g">>
\* the managed variant of a tag
Mk(tag) == <<".", "m", "k">> \o tag

\* the format tags offered at registration: one with a reader, one without
TypeTags == {DotJson, DotCfg}

UpperCase == <<"A", "B", "C", "D", "E", "F", "G", "H", "I", "J", "K", "L", "M",
               "N", "O", "P", "Q", "R", "S", "T", "U", "V", "W", "X", "Y", "Z">>
LowerCase == <<"a", "b", "c", "d", "e", "f", "g", "h", "i", "j", "k", "l", "m",
               "n", "o", "p", "q", "r", "s", "t", "u", "v", "w", "x", "y", "z">>

\* strings.ToLower: every upper-case letter is replaced by its lower-case one
ToLowerIdentityMutant(str) == str
ToLower(str) ==
    [i \in 1..Len(str) |->
        IF \E j \in 1..Len(UpperCase) : UpperCase[j] = str[i]
        THEN LowerCase[CHOOSE j \in 1..Len(UpperCase) : UpperCase[j] = str[i]]
        ELSE str[i]]

\* ConfigSettings.checkReader: the reader selected by the format tag
checkReader(configType) ==
    LET _type == ToLower(configType)
    IN IF _type \in {DotJson, Mk(DotJson)} THEN "json"
       ELSE IF _type \in {DotXml, Mk(DotXml)} THEN "xml"
       ELSE IF _type \in {DotYaml, DotYml, Mk(DotYaml), Mk(DotYml)} THEN "yaml"
       ELSE IF _type \in {DotToml, Mk(DotToml)} THEN "toml"
       ELSE IF _type \in {DotIni, Mk(DotIni)} THEN "ini"
       ELSE "nil"

\* every upper/lower-case spelling of a lower-case tag
Spellings(tag) ==
    {[i \in 1..Len(tag) |->
         IF i \in U /\ \E j \in 1..Len(LowerCase) : LowerCase[j] = tag[i]
         THEN UpperCase[CHOOSE j \in 1..Len(LowerCase) : LowerCase[j] = tag[i]]
         ELSE tag[i]] : U \in SUBSET (1..Len(tag))}

\* the tags of the vocabulary, plain and managed, with the format of each
Vocabulary == {DotJson, DotXml, DotYaml, DotYml, DotToml, DotIni}
FormatOf(tag) ==
    IF tag = DotJson THEN "json" ELSE IF tag = DotXml THEN "xml"
    ELSE IF tag \in {DotYaml, DotYml} THEN "yaml"
    ELSE IF tag = DotToml THEN "toml" ELSE "ini"

\* tags outside the vocabulary
OtherTags == {DotCfg, Mk(DotCfg), << >>, <<".">>, <<".", "m", "k">>,
              <<"j", "s", "o", "n">>, DotJson \o <<"x">>, <<".", "j", "s", "n">>,
              <<".", "m", "k">> \o <<"j", "s", "o", "n">>, <<".", "J", "S", "N">>,
              DotYaml \o DotYml, <<".", "m", "k", ".">>}

TagInputs == UNION {Spellings(t) \cup Spellings(Mk(t)) : t \in Vocabulary} \cup OtherTags

\* the probes one property compares
MaxProbes == 3

\* calculateFileHash: the md5 digest of the bytes, or an error when the file
\* cannot be read.  The digest of content f is <<"md5", f>>; the empty string
\* (zero value of lastConfigHash) is << >>.
EmptyHash == << >>
calculateFileHashSaltedMutant(f) ==
    IF f = "missing" THEN [err |-> TRUE, hash |-> EmptyHash]
    ELSE [err |-> FALSE, hash |-> <<"md5", f, IF Len(dProbes) = 0 THEN "s0" ELSE "s1">>]
calculateFileHash(f) ==
    IF f = "missing" THEN [err |-> TRUE, hash |-> EmptyHash]
    ELSE [err |-> FALSE, hash |-> <<"md5", f>>]

\* Reader.ReadConfig: reads and unmarshals the file into the typed target
ReadConfig(f) ==
    IF f \in Contents THEN [err |-> FALSE, v |-> f] ELSE [err |-> TRUE, v |-> "zero"]

\* ConfigSettings.convertToMap: (map, err); a nil map on every error
convertToMap(reader, f) ==
    IF reader = "nil" \/ f \notin Contents
    THEN [err |-> TRUE, m |-> NilMap]
    ELSE [err |-> FALSE, m |-> MapVal(ContentMap(f))]

IdleTask == [name |-> "", pc |-> "idle", hash |-> EmptyHash, loaded |-> "none",
             tracked |-> FALSE, cmap |-> NilMap, converr |-> FALSE,
             changes |-> << >>, sent |-> 0, quit |-> "open"]
IdleCaller == [op |-> "none", name |-> "", pc |-> "idle", val |-> "none",
               err |-> "none", wasRunning |-> FALSE, wasStopped |-> FALSE,
               joined |-> 0, todo |-> {}]

Running(n) == {t \in DOMAIN task : task[t].pc # "idle" /\ task[t].name = n}
FreeSlots == {t \in DOMAIN task : task[t].pc = "idle"}
\* the slot a new goroutine takes
NewSlot == CHOOSE t \in FreeSlots : \A u \in FreeSlots : t <= u

\* the goroutine slots of the specification of a double start
DoubleTasks == 1..(MaxTasks + 1)
\* the goroutine slots of the specification of the bulk operations
BulkTasks == 1..(MaxTasks + 2)

\* NewConfigManager / NewConfigList with the given threads and goroutine slots
MonInitSlots(callers, slots) ==
    /\ configs = {}
    /\ settings = {}
    /\ Reader = [n \in Names |-> "nil"]
    /\ enableChangeValidation = [n \in Names |-> FALSE]
    /\ enableChangeTracking = [n \in Names |-> FALSE]
    /\ lastConfigHash = [n \in Names |-> EmptyHash]
    /\ configMAP = [n \in Names |-> NilMap]
    /\ target = [n \in Names |-> "zero"]
    /\ ctx = [n \in Names |-> "nil"]
    /\ waitGroup = [n \in Names |-> 0]
    /\ mu = [n \in Names |-> 0]
    /\ readerMu = [n \in Names |-> "free"]
    /\ changeLogs = [n \in Names |-> << >>]
    /\ logMutex = 0
    /\ settingsMutex = "free"
    /\ file = [n \in Names |-> "M1"]
    /\ task = [t \in slots |-> IdleTask]
    /\ caller = [c \in callers |-> IdleCaller]
    /\ crashed = "no"

\* NewConfigManager / NewConfigList: nothing registered, no goroutine
MonInit(callers) == MonInitSlots(callers, Tasks)

\* the results of the calls of the threads in cs are observed
Observed(cs) == ret = [c \in cs |-> "none"]

\* the call of thread c returns the error e to the application
Return(c, e) == ret' = IF c \in DOMAIN ret THEN [ret EXCEPT ![c] = e] ELSE ret

CompareIdle ==
    /\ dOld = NilMap
    /\ dNew = NilMap
    /\ dChanges = << >>
    /\ dRet = "none"
TagIdle == dTag = DotJson /\ dReader = "none"
ProbeIdle == dProbes = << >>

DiffIdle == CompareIdle /\ TagIdle /\ ProbeIdle


----------------------------------------------------------------------------
(* Operations of the public interface, executed by the caller threads.     *)

\* ConfigList.AddConfigList -> defineReader, defineHash: a fresh entry
\* replaces whatever settings holds for the name, and the change log map is
\* replaced by an empty one
AddConfigList(n, configType) ==
    LET h == calculateFileHash(file[n])
        rd == checkReader(configType)
    IN /\ settings' = settings \cup {n}
       /\ changeLogs' = [m \in Names |-> << >>]
       /\ Reader' = [Reader EXCEPT ![n] = rd]
       /\ enableChangeValidation' = [enableChangeValidation EXCEPT ![n] = FALSE]
       /\ enableChangeTracking' = [enableChangeTracking EXCEPT ![n] = FALSE]
       /\ ctx' = [ctx EXCEPT ![n] = "nil"]
       /\ waitGroup' = [waitGroup EXCEPT ![n] = 0]
       /\ mu' = [mu EXCEPT ![n] = 0]
       /\ lastConfigHash' = [lastConfigHash EXCEPT ![n] = h.hash]
       /\ configMAP' = [configMAP EXCEPT ![n] =
                           IF h.err THEN NilMap ELSE convertToMap(rd, file[n]).m]

\* ConfigManager.AddConfig: a name the manager holds is refused; otherwise
\* AddConfigList runs, and the name is recorded by the manager when it
\* returned no error (an entry left in settings by a failed registration is
\* replaced by the next one).  Re-registration over live goroutines of the
\* replaced entry is outside the modelled inputs.
AddConfigNoDuplicateCheckMutant(c, n, configType) ==
    /\ crashed = "no"
    /\ c \in DOMAIN caller
    /\ caller[c].pc = "idle"
    /\ Running(n) = {}
    /\ AddConfigList(n, configType)
    /\ configs' = IF calculateFileHash(file[n]).err THEN configs ELSE configs \cup {n}
    /\ Return(c, IF calculateFileHash(file[n]).err THEN "err" ELSE "nil")
    /\ UNCHANGED <<target, readerMu, logMutex, settingsMutex, file, task, caller, crashed>>
    /\ UNCHANGED diffVars
AddConfig(c, n, configType) ==
    /\ crashed = "no"
    /\ c \in DOMAIN caller
    /\ caller[c].pc = "idle"
    /\ IF n \in configs
       THEN /\ Return(c, "err")
            /\ UNCHANGED <<configs, settings, Reader, enableChangeValidation,
                           enableChangeTracking, lastConfigHash, configMAP, ctx,
                           waitGroup, mu, changeLogs>>
       ELSE /\ Running(n) = {}
            /\ AddConfigList(n, configType)
            /\ configs' = IF calculateFileHash(file[n]).err THEN configs
                          ELSE configs \cup {n}
            /\ Return(c, IF calculateFileHash(file[n]).err THEN "err" ELSE "nil")
    /\ UNCHANGED <<target, readerMu, logMutex, settingsMutex, file, task, caller, crashed>>
    /\ UNCHANGED diffVars

\* ConfigSettings.SetChangeTracking on the settings of a registered name
SetChangeTracking(c, n, mode) ==
    /\ crashed = "no"
    /\ c \in DOMAIN caller
    /\ caller[c].pc = "idle"
    /\ n \in settings
    /\ enableChangeTracking[n] # mode
    /\ enableChangeTracking' = [enableChangeTracking EXCEPT ![n] = mode]
    /\ UNCHANGED <<configs, settings, Reader, enableChangeValidation, lastConfigHash,
                   configMAP, target, ctx, waitGroup, mu, readerMu, changeLogs, logMutex,
                   settingsMutex, file, task, caller, crashed>>
    /\ UNCHANGED <<ret, diffVars>>

\* the effect of ConfigList.StartChangeMonitoring on a registered name:
\* flag set, fresh context, waitGroup.Add(1), go func
SpawnStaleContextMutant(n) ==
    /\ FreeSlots # {}
    /\ enableChangeValidation' = [enableChangeValidation EXCEPT ![n] = TRUE]
    /\ ctx' = [ctx EXCEPT ![n] = IF @ = "nil" THEN "live" ELSE @]
    /\ waitGroup' = [waitGroup EXCEPT ![n] = @ + 1]
    /\ task' = [task EXCEPT ![NewSlot] = [IdleTask EXCEPT !.name = n, !.pc = "loop"]]
Spawn(n) ==
    /\ FreeSlots # {}
    /\ enableChangeValidation' = [enableChangeValidation EXCEPT ![n] = TRUE]
    /\ ctx' = [ctx EXCEPT ![n] = "live"]
    /\ waitGroup' = [waitGroup EXCEPT ![n] = @ + 1]
    /\ task' = [task EXCEPT ![NewSlot] = [IdleTask EXCEPT !.name = n, !.pc = "loop"]]

\* ConfigList.StartChangeMonitoring(configName, v)
StartNoLookupMutant(c, n) ==
    /\ crashed = "no"
    /\ c \in DOMAIN caller
    /\ caller[c].pc = "idle"
    /\ Spawn(n)
    /\ Return(c, "nil")
    /\ UNCHANGED <<configs, settings, Reader, enableChangeTracking, lastConfigHash,
                   configMAP, target, mu, readerMu, changeLogs, logMutex,
                   settingsMutex, file, caller, crashed>>
    /\ UNCHANGED diffVars
StartChangeMonitoring(c, n) ==
    /\ crashed = "no"
    /\ c \in DOMAIN caller
    /\ caller[c].pc = "idle"
    /\ IF n \in settings
       THEN /\ Spawn(n)
            /\ Return(c, "nil")
       ELSE /\ UNCHANGED <<enableChangeValidation, ctx, waitGroup, task>>
            /\ Return(c, "err")
    /\ UNCHANGED <<configs, settings, Reader, enableChangeTracking, lastConfigHash,
                   configMAP, target, mu, readerMu, changeLogs, logMutex,
                   settingsMutex, file, caller, crashed>>
    /\ UNCHANGED diffVars

\* settings.cancel(): panics on the nil cancel function of an entry that was
\* never started
CancelOnceMutant(n, fn) ==
    IF ctx[n] \in {"nil", "cancelled"}
    THEN /\ crashed' = fn
         /\ UNCHANGED ctx
    ELSE /\ ctx' = [ctx EXCEPT ![n] = "cancelled"]
         /\ UNCHANGED crashed
Cancel(n, fn) ==
    IF ctx[n] = "nil"
    THEN /\ crashed' = fn
         /\ UNCHANGED ctx
    ELSE /\ ctx' = [ctx EXCEPT ![n] = "cancelled"]
         /\ UNCHANGED crashed

\* ConfigList.StopChangeMonitoring(configName): lookup and settings.cancel()
StopChangeMonitoring(c, n) ==
    /\ crashed = "no"
    /\ c \in DOMAIN caller
    /\ caller[c].pc = "idle"
    /\ IF n \in settings
       THEN /\ Cancel(n, "StopChangeMonitoring")
            /\ caller' = [caller EXCEPT ![c] =
                   [IdleCaller EXCEPT !.op = "stop", !.name = n, !.pc = "stopWait",
                                      !.wasRunning = (Running(n) # {}),
                                      !.joined = Cardinality(Running(n)),
                                      !.wasStopped = (ctx[n] = "cancelled" /\ Running(n) = {}
                                                      /\ ~enableChangeValidation[n])]]
       ELSE UNCHANGED <<ctx, crashed, caller>>
    /\ UNCHANGED <<configs, settings, Reader, enableChangeValidation, enableChangeTracking,
                   lastConfigHash, configMAP, target, waitGroup, mu, readerMu, changeLogs,
                   logMutex, settingsMutex, file, task>>
    /\ UNCHANGED <<ret, diffVars>>

\* settings.waitGroup.Wait() returns once the counter is zero
StopWaitNoJoinMutant(c) ==
    /\ crashed = "no"
    /\ c \in DOMAIN caller
    /\ caller[c].pc = "stopWait"
    /\ caller' = [caller EXCEPT ![c].pc = "stopFlag"]
    /\ UNCHANGED <<configs, settings, Reader, enableChangeValidation, enableChangeTracking,
                   lastConfigHash, configMAP, target, ctx, waitGroup, mu, readerMu,
                   changeLogs, logMutex, settingsMutex, file, task, crashed>>
    /\ UNCHANGED <<ret, diffVars>>
StopWait(c) ==
    /\ crashed = "no"
    /\ c \in DOMAIN caller
    /\ caller[c].pc = "stopWait"
    /\ waitGroup[caller[c].name] = 0
    /\ caller' = [caller EXCEPT ![c].pc = "stopFlag"]
    /\ UNCHANGED <<configs, settings, Reader, enableChangeValidation, enableChangeTracking,
                   lastConfigHash, configMAP, target, ctx, waitGroup, mu, readerMu,
                   changeLogs, logMutex, settingsMutex, file, task, crashed>>
    /\ UNCHANGED <<ret, diffVars>>

\* enableChangeValidation = false; StopChangeMonitoring returns, to its
\* caller or into UpdateConfig
StopFlag(c) ==
    /\ crashed = "no"
    /\ c \in DOMAIN caller
    /\ caller[c].pc = "stopFlag"
    /\ enableChangeValidation' = [enableChangeValidation EXCEPT ![caller[c].name] = FALSE]
    /\ caller' = [caller EXCEPT ![c] =
                     IF caller[c].op = "update" THEN [@ EXCEPT !.pc = "updWrite"]
                     ELSE IF caller[c].op = "stopAll" THEN [@ EXCEPT !.pc = "stopAllNext"]
                     ELSE IdleCaller]
    /\ UNCHANGED <<configs, settings, Reader, enableChangeTracking,
                   lastConfigHash, configMAP, target, ctx, waitGroup, mu, readerMu,
                   changeLogs, logMutex, settingsMutex, file, task, crashed>>
    /\ UNCHANGED <<ret, diffVars>>

\* ConfigManager.StartAllChangeMonitoring: StartChangeMonitoring of every
\* entry of configList.settings whose validation flag is false
StartAllChangeMonitoring(c) ==
    /\ crashed = "no"
    /\ c \in DOMAIN caller
    /\ caller[c].pc = "idle"
    /\ LET S == {n \in settings : ~enableChangeValidation[n]}
       IN /\ Cardinality(FreeSlots) >= Cardinality(S)
          /\ LET slot == CHOOSE f \in [S -> FreeSlots] :
                             \A m, n \in S : m # n => f[m] # f[n]
             IN /\ enableChangeValidation' =
                       [n \in Names |-> IF n \in S THEN TRUE ELSE enableChangeValidation[n]]
                /\ ctx' = [n \in Names |-> IF n \in S THEN "live" ELSE ctx[n]]
                /\ waitGroup' = [n \in Names |-> IF n \in S THEN waitGroup[n] + 1
                                                ELSE waitGroup[n]]
                /\ task' = [t \in DOMAIN task |->
                               IF \E n \in S : slot[n] = t
                               THEN [IdleTask EXCEPT !.name = CHOOSE n \in S : slot[n] = t,
                                                     !.pc = "loop"]
                               ELSE task[t]]
    /\ UNCHANGED <<configs, settings, Reader, enableChangeTracking, lastConfigHash,
                   configMAP, target, mu, readerMu, changeLogs, logMutex,
                   settingsMutex, file, caller, crashed>>
    /\ UNCHANGED <<ret, diffVars>>

\* ConfigManager.StopAllChangeMonitoring: the range over configList.settings
\* begins
StopAllChangeMonitoring(c) ==
    /\ crashed = "no"
    /\ c \in DOMAIN caller
    /\ caller[c].pc = "idle"
    /\ caller' = [caller EXCEPT ![c] =
           [IdleCaller EXCEPT !.op = "stopAll", !.pc = "stopAllNext", !.todo = settings]]
    /\ UNCHANGED <<configs, settings, Reader, enableChangeValidation, enableChangeTracking,
                   lastConfigHash, configMAP, target, ctx, waitGroup, mu, readerMu,
                   changeLogs, logMutex, settingsMutex, file, task, crashed>>
    /\ UNCHANGED <<ret, diffVars>>

\* one iteration of the range of StopAllChangeMonitoring, in any order of
\* the entries: StopChangeMonitoring of an entry whose validation flag is
\* true; after the last entry StopAllChangeMonitoring returns
StopAllNext(c) ==
    /\ crashed = "no"
    /\ c \in DOMAIN caller
    /\ caller[c].pc = "stopAllNext"
    /\ IF caller[c].todo = {}
       THEN /\ caller' = [caller EXCEPT ![c] = IdleCaller]
            /\ UNCHANGED <<ctx, crashed>>
       ELSE \E n \in caller[c].todo :
               IF enableChangeValidation[n]
               THEN /\ Cancel(n, "StopAllChangeMonitoring")
                    /\ caller' = [caller EXCEPT ![c] =
                           [@ EXCEPT !.name = n, !.pc = "stopWait", !.todo = @ \ {n},
                                     !.wasRunning = (Running(n) # {}),
                                     !.joined = Cardinality(Running(n))]]
               ELSE /\ caller' = [caller EXCEPT ![c].todo = @ \ {n}]
                    /\ UNCHANGED <<ctx, crashed>>
    /\ UNCHANGED <<configs, settings, Reader, enableChangeValidation, enableChangeTracking,
                   lastConfigHash, configMAP, target, waitGroup, mu, readerMu, changeLogs,
                   logMutex, settingsMutex, file, task>>
    /\ UNCHANGED <<ret, diffVars>>

\* a map[string]chan string as the application sees it: empty, or holding
\* the tracking channel of one name
EmptyChanMap == "map[]"
ChanMapOf(n) == IF n = "a" THEN "map[a]" ELSE "map[b]"

\* ConfigManager.GetLogChanges(confName): the range over configList.settings
\* starts with the entry first (any entry: the order of a map range is not
\* specified) and ends at the break after its first iteration
GetLogChanges(c, confName) ==
    /\ crashed = "no"
    /\ c \in DOMAIN caller
    /\ caller[c].pc = "idle"
    /\ IF settings = {}
       THEN Return(c, EmptyChanMap)
       ELSE \E first \in settings :
               Return(c, IF enableChangeValidation[first] /\ first = confName
                         THEN ChanMapOf(first) ELSE EmptyChanMap)
    /\ UNCHANGED <<configs, settings, Reader, enableChangeValidation, enableChangeTracking,
                   lastConfigHash, configMAP, target, ctx, waitGroup, mu, readerMu,
                   changeLogs, logMutex, settingsMutex, file, task, caller, crashed>>
    /\ UNCHANGED diffVars

\* ConfigManager.UpdateConfig: calls ConfigList.UpdateConfig, drops the error
\* it returns and returns nil
ManagerUpdateConfig(err) == "nil"

\* ConfigList.UpdateConfig(configName, v): settingsMutex.Lock(), the two
\* early returns, then StopChangeMonitoring's cancel()
UpdateConfig(c, n, v) ==
    /\ crashed = "no"
    /\ c \in DOMAIN caller
    /\ caller[c].pc = "idle"
    /\ settingsMutex = "free"
    /\ IF n \in settings /\ Reader[n] # "nil"
       THEN /\ Cancel(n, "UpdateConfig")
            /\ settingsMutex' = c
            /\ caller' = [caller EXCEPT ![c] =
                   [IdleCaller EXCEPT !.op = "update", !.name = n, !.pc = "stopWait",
                                      !.val = v, !.wasRunning = (Running(n) # {})]]
            /\ UNCHANGED ret
       ELSE /\ UNCHANGED <<ctx, crashed, settingsMutex, caller>>
            /\ Return(c, ManagerUpdateConfig("err"))
    /\ UNCHANGED <<configs, settings, Reader, enableChangeValidation, enableChangeTracking,
                   lastConfigHash, configMAP, target, waitGroup, mu, readerMu, changeLogs,
                   logMutex, file, task>>
    /\ UNCHANGED diffVars

\* ConfigList.UpdateConfig reaches a return statement with the error err:
\* the first deferred call runs, StartChangeMonitoring(configName, v)
UpdateReturn(c, err) ==
    /\ Spawn(caller[c].name)
    /\ caller' = [caller EXCEPT ![c] = [@ EXCEPT !.pc = "updUnlock", !.err = err]]

\* Reader.UpdateConfig: the reader's lock is taken; either the write fails
\* before the file is touched, or WriteFile truncates the file and starts
\* writing
UpdateWriteBegin(c) ==
    /\ crashed = "no"
    /\ c \in DOMAIN caller
    /\ caller[c].pc = "updWrite"
    /\ readerMu[caller[c].name] = "free"
    /\ \/ /\ UpdateReturn(c, "err")
          /\ UNCHANGED <<readerMu, file>>
       \/ /\ readerMu' = [readerMu EXCEPT ![caller[c].name] = c]
          /\ file' = [file EXCEPT ![caller[c].name] = "partial"]
          /\ caller' = [caller EXCEPT ![c].pc = "updWriting"]
          /\ UNCHANGED <<enableChangeValidation, ctx, waitGroup, task>>
    /\ UNCHANGED <<configs, settings, Reader, enableChangeTracking, lastConfigHash,
                   configMAP, target, mu, changeLogs, logMutex, settingsMutex, crashed>>
    /\ UNCHANGED <<ret, diffVars>>

\* WriteFile completes: the file holds the marshalled value; the reader's
\* lock is released
UpdateWriteEnd(c) ==
    /\ crashed = "no"
    /\ c \in DOMAIN caller
    /\ caller[c].pc = "updWriting"
    /\ file' = [file EXCEPT ![caller[c].name] = caller[c].val]
    /\ readerMu' = [readerMu EXCEPT ![caller[c].name] = "free"]
    /\ caller' = [caller EXCEPT ![c].pc = "updLoad"]
    /\ UNCHANGED <<configs, settings, Reader, enableChangeValidation, enableChangeTracking,
                   lastConfigHash, configMAP, target, ctx, waitGroup, mu, changeLogs,
                   logMutex, settingsMutex, task, crashed>>
    /\ UNCHANGED <<ret, diffVars>>

\* ConfigList.LoadConfig(configName, settings.config) inside UpdateConfig,
\* then the deferred calls
UpdateLoad(c) ==
    /\ crashed = "no"
    /\ c \in DOMAIN caller
    /\ caller[c].pc = "updLoad"
    /\ readerMu[caller[c].name] = "free"
    /\ LET r == ReadConfig(file[caller[c].name])
       IN /\ target' = IF r.err THEN target ELSE [target EXCEPT ![caller[c].name] = r.v]
          /\ UpdateReturn(c, IF r.err THEN "err" ELSE "nil")
    /\ UNCHANGED <<configs, settings, Reader, enableChangeTracking, lastConfigHash,
                   configMAP, mu, readerMu, changeLogs, logMutex, settingsMutex, file,
                   crashed>>
    /\ UNCHANGED <<ret, diffVars>>

\* the last deferred call of ConfigList.UpdateConfig, settingsMutex.Unlock();
\* ConfigManager.UpdateConfig then returns to the application
UpdateUnlock(c) ==
    /\ crashed = "no"
    /\ c \in DOMAIN caller
    /\ caller[c].pc = "updUnlock"
    /\ settingsMutex' = "free"
    /\ caller' = [caller EXCEPT ![c] = IdleCaller]
    /\ Return(c, ManagerUpdateConfig(caller[c].err))
    /\ UNCHANGED <<configs, settings, Reader, enableChangeValidation, enableChangeTracking,
                   lastConfigHash, configMAP, target, ctx, waitGroup, mu, readerMu,
                   changeLogs, logMutex, file, task, crashed>>
    /\ UNCHANGED diffVars

\* a program outside the process rewrites the configuration file
FileWrite(n, f) ==
    /\ crashed = "no"
    /\ file[n] # f
    /\ file' = [file EXCEPT ![n] = f]
    /\ UNCHANGED <<configs, settings, Reader, enableChangeValidation, enableChangeTracking,
                   lastConfigHash, configMAP, target, ctx, waitGroup, mu, readerMu,
                   changeLogs, logMutex, settingsMutex, task, caller, crashed>>
    /\ UNCHANGED <<ret, diffVars>>

----------------------------------------------------------------------------
(* The monitor goroutine of StartChangeMonitoring and checkConfigChanges.  *)

\* the goroutine returns: close(quit) where the code closes it, and the
\* deferred waitGroup.Done()
ExitReleasesAllMutant(t) ==
    /\ task' = [task EXCEPT ![t] = IdleTask]
    /\ waitGroup' = [waitGroup EXCEPT ![task[t].name] = 0]
Exit(t) ==
    /\ task' = [task EXCEPT ![t] = IdleTask]
    /\ waitGroup' = [waitGroup EXCEPT ![task[t].name] = @ - 1]

\* top of the for loop: select { <-ch_ChangeValidation, <-ctx.Done(), default }
\* (nothing ever sends on ch_ChangeValidation); in the default case
\* checkConfigChanges starts: the validation flag is read and the file hashed
TaskSelect(t) ==
    /\ crashed = "no"
    /\ task[t].pc = "loop"
    /\ LET n == task[t].name
           h == calculateFileHash(file[n])
       IN IF ctx[n] = "cancelled"
          THEN Exit(t)
          ELSE /\ task' = [task EXCEPT ![t] =
                      IF ~enableChangeValidation[n] THEN [@ EXCEPT !.pc = "sleep"]
                      ELSE IF h.err THEN [@ EXCEPT !.pc = "backoff"]
                      ELSE [@ EXCEPT !.pc = "lock", !.hash = h.hash]]
               /\ UNCHANGED waitGroup
    /\ UNCHANGED <<configs, settings, Reader, enableChangeValidation, enableChangeTracking,
                   lastConfigHash, configMAP, target, ctx, mu, readerMu, changeLogs,
                   logMutex, settingsMutex, file, caller, crashed>>
    /\ UNCHANGED <<ret, diffVars>>

\* mu.Lock() of the entry, then the comparison with lastConfigHash; on an
\* equal hash the deferred Unlock runs and the tick is over
TaskLockAlwaysReloadMutant(t) ==
    /\ crashed = "no"
    /\ task[t].pc = "lock"
    /\ mu[task[t].name] = 0
    /\ mu' = [mu EXCEPT ![task[t].name] = t]
    /\ task' = [task EXCEPT ![t].pc = "read"]
    /\ UNCHANGED <<configs, settings, Reader, enableChangeValidation, enableChangeTracking,
                   lastConfigHash, configMAP, target, ctx, waitGroup, readerMu,
                   changeLogs, logMutex, settingsMutex, file, caller, crashed>>
    /\ UNCHANGED <<ret, diffVars>>
TaskLock(t) ==
    /\ crashed = "no"
    /\ task[t].pc = "lock"
    /\ mu[task[t].name] = 0
    /\ IF task[t].hash # lastConfigHash[task[t].name]
       THEN /\ mu' = [mu EXCEPT ![task[t].name] = t]
            /\ task' = [task EXCEPT ![t].pc = "read"]
       ELSE /\ task' = [task EXCEPT ![t] = [@ EXCEPT !.pc = "sleep", !.hash = EmptyHash]]
            /\ UNCHANGED mu
    /\ UNCHANGED <<configs, settings, Reader, enableChangeValidation, enableChangeTracking,
                   lastConfigHash, configMAP, target, ctx, waitGroup, readerMu,
                   changeLogs, logMutex, settingsMutex, file, caller, crashed>>
    /\ UNCHANGED <<ret, diffVars>>

\* the tick ends with an error: deferred Unlock, back to the loop, which
\* sleeps ten seconds and continues
TickFailed(t) == [IdleTask EXCEPT !.name = task[t].name, !.pc = "backoff"]

\* set.config = &v; set.configMAP = configMap; set.lastConfigHash = hash
StoreKeepsFingerprintMutant(n, cmap, hash) ==
    /\ configMAP' = [configMAP EXCEPT ![n] = cmap]
    /\ lastConfigHash' = lastConfigHash
Store(n, cmap, hash) ==
    /\ configMAP' = [configMAP EXCEPT ![n] = cmap]
    /\ lastConfigHash' = [lastConfigHash EXCEPT ![n] = hash]

\* Reader.ReadConfig(configFullPath, &v) under the entry lock; a nil Reader
\* is a nil pointer dereference.  With tracking disabled the tick goes on to
\* store the (nil) configMap and the hash.
TaskReadStoreOnErrorMutant(t) ==
    /\ crashed = "no"
    /\ task[t].pc = "read"
    /\ Reader[task[t].name] # "nil"
    /\ readerMu[task[t].name] = "free"
    /\ LET n == task[t].name
           r == ReadConfig(file[n])
       IN IF r.err
          THEN /\ task' = [task EXCEPT ![t] = TickFailed(t)]
               /\ mu' = [mu EXCEPT ![n] = 0]
               /\ Store(n, configMAP[n], task[t].hash)
               /\ UNCHANGED target
          ELSE /\ target' = [target EXCEPT ![n] = r.v]
               /\ UNCHANGED mu
               /\ IF enableChangeTracking[n]
                  THEN /\ task' = [task EXCEPT ![t] =
                             [@ EXCEPT !.loaded = r.v, !.tracked = TRUE,
                                       !.pc = "convert"]]
                       /\ UNCHANGED <<configMAP, lastConfigHash>>
                  ELSE /\ task' = [task EXCEPT ![t] =
                             [@ EXCEPT !.loaded = r.v, !.pc = "notify"]]
                       /\ Store(n, task[t].cmap, task[t].hash)
    /\ UNCHANGED <<configs, settings, Reader, enableChangeValidation, enableChangeTracking,
                   ctx, waitGroup, readerMu, changeLogs, logMutex, settingsMutex, file,
                   caller, crashed>>
    /\ UNCHANGED <<ret, diffVars>>
TaskRead(t) ==
    /\ crashed = "no"
    /\ task[t].pc = "read"
    /\ LET n == task[t].name
           r == ReadConfig(file[n])
       IN IF Reader[n] = "nil"
          THEN /\ crashed' = "checkConfigChanges"
               /\ UNCHANGED <<task, mu, target, configMAP, lastConfigHash>>
          ELSE /\ readerMu[n] = "free"
               /\ UNCHANGED crashed
               /\ IF r.err
                  THEN /\ task' = [task EXCEPT ![t] = TickFailed(t)]
                       /\ mu' = [mu EXCEPT ![n] = 0]
                       /\ UNCHANGED <<target, configMAP, lastConfigHash>>
                  ELSE /\ target' = [target EXCEPT ![n] = r.v]
                       /\ UNCHANGED mu
                       /\ IF enableChangeTracking[n]
                          THEN /\ task' = [task EXCEPT ![t] =
                                     [@ EXCEPT !.loaded = r.v, !.tracked = TRUE,
                                               !.pc = "convert"]]
                               /\ UNCHANGED <<configMAP, lastConfigHash>>
                          ELSE /\ task' = [task EXCEPT ![t] =
                                     [@ EXCEPT !.loaded = r.v, !.pc = "notify"]]
                               /\ Store(n, task[t].cmap, task[t].hash)
    /\ UNCHANGED <<configs, settings, Reader, enableChangeValidation, enableChangeTracking,
                   ctx, waitGroup, readerMu, changeLogs, logMutex, settingsMutex, file,
                   caller>>
    /\ UNCHANGED <<ret, diffVars>>

\* tracking enabled: convertToMap reads the file again, compareFields diffs
\* the stored snapshot against the result
TaskConvert(t) ==
    /\ crashed = "no"
    /\ task[t].pc = "convert"
    /\ readerMu[task[t].name] = "free"
    /\ LET n == task[t].name
           cm == convertToMap(Reader[n], file[n])
       IN \E d \in compareFieldsResults(n, configMAP[n], cm.m) :
              task' = [task EXCEPT ![t] =
                  [@ EXCEPT !.cmap = cm.m, !.converr = cm.err,
                            !.changes = d.changes, !.pc = "log"]]
    /\ UNCHANGED <<configs, settings, Reader, enableChangeValidation, enableChangeTracking,
                   lastConfigHash, configMAP, target, ctx, waitGroup, mu, readerMu,
                   changeLogs, logMutex, settingsMutex, file, caller, crashed>>
    /\ UNCHANGED <<ret, diffVars>>

\* logChanges: logMutex.Lock() and the append; the send on Ch_ConfigTracking
\* follows
TaskLog(t) ==
    /\ crashed = "no"
    /\ task[t].pc = "log"
    /\ logMutex = 0
    /\ Len(changeLogs[task[t].name]) + Len(task[t].changes) <= MaxLog
    /\ changeLogs' = [changeLogs EXCEPT ![task[t].name] = @ \o task[t].changes]
    /\ logMutex' = t
    /\ task' = [task EXCEPT ![t].pc = "sendTrack"]
    /\ UNCHANGED <<configs, settings, Reader, enableChangeValidation, enableChangeTracking,
                   lastConfigHash, configMAP, target, ctx, waitGroup, mu, readerMu,
                   settingsMutex, file, caller, crashed>>
    /\ UNCHANGED <<ret, diffVars>>

\* a listener receives the send of logChanges on Ch_ConfigTracking and
\* logMutex is released; then the error of convertToMap is tested: the tick
\* fails, or stores configMap and the hash
RecvLogSignalOnlyMutant(t) ==
    /\ crashed = "no"
    /\ task[t].pc = "sendTrack"
    /\ logMutex' = 0
    /\ mu' = [mu EXCEPT ![task[t].name] = 0]
    /\ IF task[t].converr
       THEN /\ task' = [task EXCEPT ![t] = TickFailed(t)]
            /\ UNCHANGED <<configMAP, lastConfigHash>>
       ELSE /\ task' = [task EXCEPT ![t] =
                   [IdleTask EXCEPT !.name = task[t].name, !.pc = "sleep"]]
            /\ Store(task[t].name, task[t].cmap, task[t].hash)
    /\ UNCHANGED <<configs, settings, Reader, enableChangeValidation, enableChangeTracking,
                   target, ctx, waitGroup, readerMu, changeLogs, settingsMutex, file,
                   caller, crashed>>
    /\ UNCHANGED <<ret, diffVars>>
RecvLogSignal(t) ==
    /\ crashed = "no"
    /\ task[t].pc = "sendTrack"
    /\ logMutex' = 0
    /\ IF task[t].converr
       THEN /\ task' = [task EXCEPT ![t] = TickFailed(t)]
            /\ mu' = [mu EXCEPT ![task[t].name] = 0]
            /\ UNCHANGED <<configMAP, lastConfigHash>>
       ELSE /\ task' = [task EXCEPT ![t] = [@ EXCEPT !.sent = @ + 1, !.pc = "notify"]]
            /\ Store(task[t].name, task[t].cmap, task[t].hash)
            /\ UNCHANGED mu
    /\ UNCHANGED <<configs, settings, Reader, enableChangeValidation, enableChangeTracking,
                   target, ctx, waitGroup, readerMu, changeLogs, settingsMutex, file,
                   caller, crashed>>
    /\ UNCHANGED <<ret, diffVars>>

\* a listener receives the send of the final select, on Ch_ConfigChanged or
\* on Ch_ConfigTracking; the deferred Unlock runs and the tick returns nil
RecvNotify(t, ch) ==
    /\ crashed = "no"
    /\ task[t].pc = "notify"
    /\ ch \in {"Ch_ConfigChanged", "Ch_ConfigTracking"}
    /\ mu' = [mu EXCEPT ![task[t].name] = 0]
    /\ task' = [task EXCEPT ![t] =
           [IdleTask EXCEPT !.name = task[t].name, !.pc = "sleep"]]
    /\ UNCHANGED <<configs, settings, Reader, enableChangeValidation, enableChangeTracking,
                   lastConfigHash, configMAP, target, ctx, waitGroup, readerMu, changeLogs,
                   logMutex, settingsMutex, file, caller, crashed>>
    /\ UNCHANGED <<ret, diffVars>>

\* the outcomes of select { <-time.After(checkSec), <-quit } for a goroutine
\* whose quit channel is in state q
SleepOutcomes(q) == {"loop"} \cup (IF q = "closed" THEN {"exit"} ELSE {})

\* the inter-tick sleep ends
TaskSleep(t) ==
    /\ crashed = "no"
    /\ task[t].pc = "sleep"
    /\ \E o \in SleepOutcomes(task[t].quit) :
          IF o = "exit"
          THEN /\ task' = [task EXCEPT ![t] = IdleTask]
               /\ waitGroup' = [waitGroup EXCEPT ![task[t].name] = @ - 1]
          ELSE /\ task' = [task EXCEPT ![t].pc = "loop"]
               /\ UNCHANGED waitGroup
    /\ UNCHANGED <<configs, settings, Reader, enableChangeValidation, enableChangeTracking,
                   lastConfigHash, configMAP, target, ctx, mu, readerMu, changeLogs,
                   logMutex, settingsMutex, file, caller, crashed>>
    /\ UNCHANGED <<ret, diffVars>>

\* time.Sleep(10 s) after a failed tick, then continue
TaskBackoff(t) ==
    /\ crashed = "no"
    /\ task[t].pc = "backoff"
    /\ task' = [task EXCEPT ![t].pc = "loop"]
    /\ UNCHANGED <<configs, settings, Reader, enableChangeValidation, enableChangeTracking,
                   lastConfigHash, configMAP, target, ctx, waitGroup, mu, readerMu,
                   changeLogs, logMutex, settingsMutex, file, caller, crashed>>
    /\ UNCHANGED <<ret, diffVars>>

----------------------------------------------------------------------------
(* The differ on its own: compareFields applied to arbitrary arguments.    *)

DiffApply ==
    /\ dRet = "none"
    /\ \E d \in compareFieldsResults(DiffName, dOld, dNew) :
          /\ dChanges' = d.changes
          /\ dRet' = IF d.err THEN "err" ELSE "nil"
    /\ UNCHANGED <<dOld, dNew, dTag, dReader, dProbes>>
    /\ UNCHANGED monVars

\* checkReader applied to a format tag
TagApply ==
    /\ dReader = "none"
    /\ dReader' = checkReader(dTag)
    /\ UNCHANGED <<dOld, dNew, dChanges, dRet, dTag, dProbes>>
    /\ UNCHANGED monVars

\* calculateFileHash applied to the file of configuration "a" as it is now
Probe ==
    /\ Len(dProbes) < MaxProbes
    /\ dProbes' = Append(dProbes, [content |-> file["a"],
                                   res |-> calculateFileHash(file["a"])])
    /\ UNCHANGED <<dOld, dNew, dChanges, dRet, dTag, dReader>>
    /\ UNCHANGED monVars

----------------------------------------------------------------------------
(* Specifications.  A panic ends the process: no action is enabled once    *)
(* crashed is set.                                                         *)

\* the calls a thread of the application (a member of DOMAIN caller) can make: registration of the names
\* in reg with the tags in tags, monitoring control and update of the names
\* in mon, and StopChangeMonitoring of the names in stop
CallerStep(reg, tags, mon, stop) ==
    \E c \in Callers :
        \/ \E n \in reg, ty \in tags : AddConfig(c, n, ty)
        \/ \E n \in mon, mode \in BOOLEAN : SetChangeTracking(c, n, mode)
        \/ \E n \in mon : StartChangeMonitoring(c, n)
        \/ \E n \in stop : StopChangeMonitoring(c, n)
        \/ StopWait(c)
        \/ StopFlag(c)
        \/ \E n \in mon, v \in Contents : UpdateConfig(c, n, v)
        \/ UpdateWriteBegin(c)
        \/ UpdateWriteEnd(c)
        \/ UpdateLoad(c)
        \/ UpdateUnlock(c)

TaskStep ==
    \E t \in Tasks :
        \/ TaskSelect(t)
        \/ TaskLock(t)
        \/ TaskRead(t)
        \/ TaskConvert(t)
        \/ TaskLog(t)
        \/ RecvLogSignal(t)
        \/ \E ch \in {"Ch_ConfigChanged", "Ch_ConfigTracking"} : RecvNotify(t, ch)
        \/ TaskSleep(t)
        \/ TaskBackoff(t)

EnvStep(names, files) == \E n \in names, f \in files : FileWrite(n, f)

\* One application thread.  Configuration "a" is registered, monitored and
\* updated and its file is rewritten from outside; name "b" is unknown until
\* it is registered, and is never monitored.
Next == \/ CallerStep(Names, {DotJson}, {"a"}, Names)
        \/ TaskStep
        \/ EnvStep({"a"}, {"M1", "M2", "garbage", "missing"})
Init == MonInit({"c1"}) /\ Observed({}) /\ DiffIdle
Spec == Init /\ [][Next]_vars

\* Two application threads call the interface concurrently on configuration "a".
NextConc == \/ CallerStep({"a"}, {DotJson}, {"a"}, {"a"})
            \/ TaskStep
            \/ EnvStep({"a"}, {"missing"})
InitConc == MonInit(Callers) /\ Observed({}) /\ DiffIdle
SpecConc == InitConc /\ [][NextConc]_vars

\* One application thread whose results are observed.  Configuration "a" is
\* registered with a format tag that has a reader or with one that has none.
NextApi == \/ CallerStep({"a"}, TypeTags, {"a"}, {"a"})
           \/ TaskStep
           \/ EnvStep({"a"}, {"M2", "garbage", "missing"})
InitApi == MonInit({"c1"}) /\ Observed({"c1"}) /\ DiffIdle
SpecApi == InitApi /\ [][NextApi]_vars

\* a file is put in place before its configuration is registered
FileCreate(n, f) == n \notin settings /\ FileWrite(n, f)

\* One application thread registers both configurations and starts and stops
\* their monitors; a file is written only before its configuration has an
\* entry, never afterwards, and UpdateConfig is not called.
NextQuiet == \/ \E c \in Callers :
                   \/ \E n \in Names : AddConfig(c, n, DotJson)
                   \/ \E n \in Names, mode \in BOOLEAN : SetChangeTracking(c, n, mode)
                   \/ \E n \in Names : StartChangeMonitoring(c, n)
                   \/ \E n \in Names : StopChangeMonitoring(c, n)
                   \/ StopWait(c)
                   \/ StopFlag(c)
             \/ \E t \in Tasks :
                   \/ TaskSelect(t)
                   \/ TaskLock(t)
                   \/ TaskSleep(t)
                   \/ TaskBackoff(t)
             \/ \E n \in Names, f \in {"M2", "missing"} : FileCreate(n, f)
InitQuiet == MonInit({"c1"}) /\ Observed({}) /\ DiffIdle
SpecQuiet == InitQuiet /\ [][NextQuiet]_vars

\* the steps the Go scheduler takes for a runnable monitor goroutine: every
\* step of the loop except the two channel sends, which need a receiver
GoroutineRuns ==
    \E t \in Tasks :
        \/ TaskSelect(t)
        \/ TaskLock(t)
        \/ TaskRead(t)
        \/ TaskConvert(t)
        \/ TaskLog(t)
        \/ TaskSleep(t)

\* the steps the Go scheduler takes for a thread inside StopChangeMonitoring
StopRuns == \E c \in Callers : StopWait(c) \/ StopFlag(c)

\* One application thread registers configuration "a", starts and stops its
\* monitor; the file changes once.  Goroutines and the thread inside
\* StopChangeMonitoring are scheduled fairly; whether anybody receives on
\* Ch_ConfigChanged or Ch_ConfigTracking is up to the application.
NextLive == \/ \E c \in Callers :
                  \/ AddConfig(c, "a", DotJson)
                  \/ \E mode \in BOOLEAN : SetChangeTracking(c, "a", mode)
                  \/ StartChangeMonitoring(c, "a")
                  \/ StopChangeMonitoring(c, "a")
            \/ StopRuns
            \/ GoroutineRuns
            \/ \E t \in Tasks :
                  \/ RecvLogSignal(t)
                  \/ \E ch \in {"Ch_ConfigChanged", "Ch_ConfigTracking"} : RecvNotify(t, ch)
            \/ FileWrite("a", "M2")
InitLive == MonInit({"c1"}) /\ Observed({}) /\ DiffIdle
SpecLive == InitLive /\ [][NextLive]_vars /\ WF_vars(GoroutineRuns) /\ WF_vars(StopRuns)

\* One application thread registers configuration "a" and starts its
\* monitor up to twice before it stops it; change tracking stays disabled.
NextDouble == \/ \E c \in Callers :
                    \/ AddConfig(c, "a", DotJson)
                    \/ StartChangeMonitoring(c, "a")
                    \/ StopChangeMonitoring(c, "a")
                    \/ StopWait(c)
                    \/ StopFlag(c)
              \/ \E t \in DoubleTasks :
                    \/ TaskSelect(t)
                    \/ TaskLock(t)
                    \/ TaskRead(t)
                    \/ \E ch \in {"Ch_ConfigChanged", "Ch_ConfigTracking"} : RecvNotify(t, ch)
                    \/ TaskSleep(t)
                    \/ TaskBackoff(t)
              \/ \E f \in {"M2", "missing"} : FileWrite("a", f)
InitDouble == MonInitSlots({"c1"}, DoubleTasks) /\ Observed({}) /\ DiffIdle
SpecDouble == InitDouble /\ [][NextDouble]_vars

\* One application thread registers configuration "a" and starts its
\* monitor twice; listeners receive; the file changes once, from M1 to M2.
NextTwin == \/ \E c \in Callers :
                  \/ AddConfig(c, "a", DotJson)
                  \/ \E mode \in BOOLEAN : SetChangeTracking(c, "a", mode)
                  \/ StartChangeMonitoring(c, "a")
            \/ \E t \in DoubleTasks :
                  \/ TaskSelect(t)
                  \/ TaskLock(t)
                  \/ TaskRead(t)
                  \/ TaskConvert(t)
                  \/ TaskLog(t)
                  \/ RecvLogSignal(t)
                  \/ \E ch \in {"Ch_ConfigChanged", "Ch_ConfigTracking"} : RecvNotify(t, ch)
                  \/ TaskSleep(t)
            \/ FileWrite("a", "M2")
InitTwin == MonInitSlots({"c1"}, DoubleTasks) /\ Observed({}) /\ DiffIdle
SpecTwin == InitTwin /\ [][NextTwin]_vars

\* the steps the Go scheduler takes for the monitor goroutines of entry n
MonitorRuns(n) ==
    \E t \in DoubleTasks :
        /\ task[t].name = n
        /\ \/ TaskSelect(t)
           \/ TaskLock(t)
           \/ TaskRead(t)
           \/ TaskConvert(t)
           \/ TaskLog(t)
           \/ TaskSleep(t)

\* the listeners of entry n receive what its monitor offers
Listen(n) ==
    \E t \in DoubleTasks :
        /\ task[t].name = n
        /\ \/ RecvLogSignal(t)
           \/ \E ch \in {"Ch_ConfigChanged", "Ch_ConfigTracking"} : RecvNotify(t, ch)

\* One application thread registers configurations "a" and "b", enables
\* change tracking and starts their monitors; each file changes once.  The
\* goroutines are scheduled fairly and the listeners of "b" are always
\* ready; nobody receives on the channels of "a".
NextPair == \/ \E c \in Callers, n \in Names :
                  \/ AddConfig(c, n, DotJson)
                  \/ SetChangeTracking(c, n, TRUE)
                  \/ StartChangeMonitoring(c, n)
            \/ \E t \in DoubleTasks :
                  \/ TaskSelect(t)
                  \/ TaskLock(t)
                  \/ TaskRead(t)
                  \/ TaskConvert(t)
                  \/ TaskLog(t)
                  \/ TaskSleep(t)
            \/ Listen("b")
            \/ \E n \in Names : FileWrite(n, "M2")
InitPair == MonInitSlots({"c1"}, DoubleTasks) /\ Observed({}) /\ DiffIdle
SpecPair == /\ InitPair /\ [][NextPair]_vars
            /\ WF_vars(MonitorRuns("a")) /\ WF_vars(MonitorRuns("b"))
            /\ WF_vars(Listen("b"))

\* the file of a configuration is rewritten a finite number of times: it
\* is removed, replaced by an unparsable file, and finally holds M2
FileRank(f) == IF f = "M1" THEN 0 ELSE IF f = "missing" THEN 1
               ELSE IF f = "garbage" THEN 2 ELSE 3
FileAdvance(n, f) == FileRank(f) > FileRank(file[n]) /\ FileWrite(n, f)

\* the monitor of a configuration is started when it has none
StartOnce(c, n) == Running(n) = {} /\ StartChangeMonitoring(c, n)

\* the ten-second sleep after a failed tick ends
BackoffEnds == \E t \in Tasks : TaskBackoff(t)

\* the listeners receive what the monitors offer
Receive ==
    \E t \in Tasks :
        \/ RecvLogSignal(t)
        \/ \E ch \in {"Ch_ConfigChanged", "Ch_ConfigTracking"} : RecvNotify(t, ch)

\* One application thread registers configuration "a", switches change
\* tracking and starts the monitor once, which is never stopped; the file is
\* rewritten a finite number of times.  The goroutine is scheduled fairly
\* and the listeners are always ready to receive.
NextSettle == \/ \E c \in Callers :
                    \/ AddConfig(c, "a", DotJson)
                    \/ \E mode \in BOOLEAN : SetChangeTracking(c, "a", mode)
                    \/ StartOnce(c, "a")
              \/ GoroutineRuns
              \/ BackoffEnds
              \/ Receive
              \/ \E f \in {"missing", "garbage", "M2"} : FileAdvance("a", f)
InitSettle == MonInit({"c1"}) /\ Observed({}) /\ DiffIdle
SpecSettle == /\ InitSettle /\ [][NextSettle]_vars
              /\ WF_vars(GoroutineRuns) /\ WF_vars(BackoffEnds) /\ WF_vars(Receive)

\* One application thread registers configurations "a" and "b" and starts
\* and stops their monitors one by one and all at once; the files do not
\* change.
NextBulk == \/ \E c \in Callers :
                  \/ \E n \in Names : AddConfig(c, n, DotJson)
                  \/ \E n \in Names : StartChangeMonitoring(c, n)
                  \/ \E n \in Names : StopChangeMonitoring(c, n)
                  \/ StartAllChangeMonitoring(c)
                  \/ StopAllChangeMonitoring(c)
                  \/ StopAllNext(c)
                  \/ StopWait(c)
                  \/ StopFlag(c)
            \/ \E t \in BulkTasks :
                  \/ TaskSelect(t)
                  \/ TaskLock(t)
                  \/ TaskSleep(t)
InitBulk == MonInitSlots({"c1"}, BulkTasks) /\ Observed({}) /\ DiffIdle
SpecBulk == InitBulk /\ [][NextBulk]_vars

\* One application thread whose results are observed registers
\* configurations "a" and "b", starts and stops their monitors and asks for
\* the tracking channel of a name; the files do not change.
NextChan == \/ \E c \in Callers :
                  \/ \E n \in Names : AddConfig(c, n, DotJson)
                  \/ \E n \in Names : StartChangeMonitoring(c, n)
                  \/ \E n \in Names : StopChangeMonitoring(c, n)
                  \/ StopWait(c)
                  \/ StopFlag(c)
                  \/ \E n \in Names : GetLogChanges(c, n)
            \/ \E t \in Tasks :
                  \/ TaskSelect(t)
                  \/ TaskLock(t)
                  \/ TaskSleep(t)
InitChan == MonInit({"c1"}) /\ Observed({"c1"}) /\ DiffIdle
SpecChan == InitChan /\ [][NextChan]_vars

\* compareFields on every pair of arguments
InitDiff == MonInit({"c1"}) /\ Observed({}) /\ dOld \in DiffInputs /\ dNew \in DiffInputs
            /\ dChanges = << >> /\ dRet = "none" /\ TagIdle /\ ProbeIdle
NextDiff == DiffApply
SpecDiff == InitDiff /\ [][NextDiff]_vars

\* checkReader on every spelling of every tag of the vocabulary and on tags
\* outside it
InitTag == MonInit({"c1"}) /\ Observed({}) /\ CompareIdle /\ ProbeIdle
           /\ dTag \in TagInputs /\ dReader = "none"
NextTag == TagApply
SpecTag == InitTag /\ [][NextTag]_vars

\* calculateFileHash on a file that is rewritten between the probes
InitHash == MonInit({"c1"}) /\ Observed({}) /\ DiffIdle
NextHash == Probe \/ EnvStep({"a"}, FileStates)
SpecHash == InitHash /\ [][NextHash]_vars

----------------------------------------------------------------------------
(* Properties of the monitor lifecycle and of the poll tick.               *)

\* the state of the entry of name n
EntryState(n) ==
    <<n \in settings, enableChangeValidation[n], enableChangeTracking[n],
      lastConfigHash[n], configMAP[n], target[n], ctx[n], waitGroup[n], changeLogs[n]>>

\* C1: when StopChangeMonitoring(name) returns (to the application or into
\* UpdateConfig), no monitor goroutine of that entry is running and the
\* entry's change-validation flag is false.
C1_StopJoins ==
    [][\A c \in DOMAIN caller, n \in Names :
          (caller[c].pc = "stopFlag" /\ caller[c].name = n /\ caller'[c].pc # "stopFlag")
              => (/\ \A t \in Tasks : task'[t].pc = "idle" \/ task'[t].name # n
                  /\ ~enableChangeValidation'[n])]_vars

\* a Stop called while a goroutine was running has waited for it and is
\* about to return
C1_Witness ==
    \E c \in DOMAIN caller :
        /\ caller[c].op = "stop" /\ caller[c].pc = "stopFlag" /\ caller[c].wasRunning
        /\ Running(caller[c].name) = {}

\* C2: while UpdateConfig(name, v) is writing the file or is about to reload
\* it, no monitor goroutine of entry `name` is running.
C2_UpdateExcludesMonitor ==
    \A c \in DOMAIN caller :
        (caller[c].op = "update" /\ caller[c].pc \in {"updWriting", "updLoad"})
            => Running(caller[c].name) = {}

\* C3: whenever the entry lock of a registered configuration is free, the
\* stored fingerprint and the stored snapshot are the digest and the mapping
\* of one and the same file content.
C3_ReloadAtomicity ==
    \A n \in configs :
        mu[n] = 0 =>
            \E f \in FileStates :
                /\ lastConfigHash[n] = calculateFileHash(f).hash
                /\ configMAP[n] = convertToMap(Reader[n], f).m

\* C4: for a goroutine in its inter-tick sleep whose context has been
\* cancelled, the stop case of the sleep's select is ready: it can leave the
\* sleep without the timer expiring.
C4_SleepInterruptible ==
    \A t \in Tasks :
        (task[t].pc = "sleep" /\ ctx[task[t].name] = "cancelled")
            => "exit" \in SleepOutcomes(task[t].quit)

\* C5: StopChangeMonitoring on an entry that was started and has been stopped
\* does not block in Wait, does not panic, and none of its steps changes the
\* state of the entry.
C5_StopIdempotent ==
    /\ [](\A c \in DOMAIN caller :
            (caller[c].op = "stop" /\ caller[c].wasStopped /\ caller[c].pc = "stopWait")
                => waitGroup[caller[c].name] = 0)
    /\ [][\A c \in DOMAIN caller, n \in Names :
            (/\ caller'[c] # caller[c]
             /\ \/ caller[c].op = "stop" /\ caller[c].wasStopped /\ caller[c].name = n
                \/ caller'[c].op = "stop" /\ caller'[c].wasStopped /\ caller'[c].name = n)
                => (EntryState(n)' = EntryState(n) /\ crashed' = "no")]_vars

\* a second Stop on a stopped entry has passed Wait and is about to return
C5_Witness ==
    \E c \in DOMAIN caller :
        /\ caller[c].op = "stop" /\ caller[c].wasStopped /\ caller[c].pc = "stopFlag"
        /\ ctx[caller[c].name] = "cancelled"

\* C6: StopChangeMonitoring(name) returns normally when `name` is unknown or
\* its monitor is not running: the process never panics in it.
C6_StopNotRunningIsNoOp == crashed # "StopChangeMonitoring"

\* a goroutine completes a tick that detected a change and reloaded
TickDone(t) == task[t].pc # "sleep" /\ task[t].loaded # "none" /\ task'[t].pc = "sleep"

\* C9 (as stated): a tick that detects a change and reloads successfully has
\* sent exactly one notification when it completes.
C9_OneNotificationPerTick ==
    [][\A t \in Tasks : TickDone(t) => task[t].sent + 1 = 1]_vars

\* C9 (amended): such a tick has sent exactly one notification when tracking
\* was disabled, and exactly two when it was enabled (the send of logChanges,
\* then the send of the final select).
C9_NotificationsPerTick ==
    [][\A t \in Tasks :
          TickDone(t) => task[t].sent + 1 = (IF task[t].tracked THEN 2 ELSE 1)]_vars

\* a tracked tick whose first notification was received is sending its second
C9_Witness ==
    \E t \in Tasks : task[t].pc = "notify" /\ task[t].tracked /\ task[t].sent = 1

IsInfix(sub, seq) ==
    \E i \in 0..(Len(seq) - Len(sub)) : \A j \in 1..Len(sub) : seq[i + j] = sub[j]

\* C10: whenever a goroutine is offering a notification of a tick to the
\* listeners, the typed reload of that tick is done and, if the tick tracks
\* changes, its change records are in the change log of the entry.
C10_NotifyAfterReloadAndLog ==
    \A t \in Tasks :
        task[t].pc \in {"sendTrack", "notify"} =>
            /\ task[t].loaded # "none"
            /\ task[t].tracked => IsInfix(task[t].changes, changeLogs[task[t].name])

IsPrefix(s, t) == Len(s) <= Len(t) /\ \A i \in 1..Len(s) : t[i] = s[i]

\* C11: the change log is append-only: in every step of the public interface,
\* of a poll tick or of the environment, the log of every name before the
\* step is a prefix of its log after the step.
C11_LogAppendOnly ==
    [][\A n \in Names : IsPrefix(changeLogs[n], changeLogs'[n])]_vars

\* C20: no monitor goroutine holds the lock of its entry (ConfigSettings.mu)
\* and the change-log lock (ConfigList.logMutex) at the same time.
C20_LocksNeverNested ==
    \A t \in Tasks : ~(logMutex = t /\ mu[task[t].name] = t)

\* C21: every step that changes the typed target or the snapshot of a
\* registered configuration is taken by an actor that holds the lock of that
\* entry (ConfigSettings.mu) before and after the write.
C21_WritesUnderEntryLock ==
    [][\A n \in configs :
          (target'[n] # target[n] \/ configMAP'[n] # configMAP[n])
              => (mu[n] # 0 /\ mu'[n] = mu[n])]_vars

\* C22: when a poll tick that tracks changes has stored its results, the
\* snapshot of the entry is the mapping of the content its typed target was
\* loaded from.
C22_TargetAndSnapshotSameGeneration ==
    [][\A t \in Tasks :
          (task[t].pc = "sendTrack" /\ task'[t].pc = "notify")
              => configMAP'[task[t].name]
                     = convertToMap(Reader[task[t].name], target'[task[t].name]).m]_vars

\* C24: a poll tick whose new configuration is not a mapping (the conversion
\* failed) reports the error without using the result of the diff: it appends
\* nothing to the change log and signals nothing.
C24_MismatchAbortsDiff ==
    \A t \in Tasks : task[t].pc = "sendTrack" => ~task[t].converr

\* C26: the change log of a name changes only by logChanges of a tick of that
\* name, which appends the batch of the tick at its end while holding
\* logMutex and leaves the logs of the other names unchanged; so the log of a
\* name is the concatenation of the batches recorded for it.
C26_LogIsConcatenationOfBatches ==
    [][\A n \in Names :
          changeLogs'[n] # changeLogs[n]
              => \E t \in Tasks :
                    /\ task[t].name = n /\ task[t].pc = "log"
                    /\ task'[t].pc = "sendTrack" /\ logMutex' = t
                    /\ changeLogs'[n] = changeLogs[n] \o task[t].changes
                    /\ \A m \in Names \ {n} : changeLogs'[m] = changeLogs[m]]_vars

\* C29 (specification SpecLive): a call of StopChangeMonitoring on an entry
\* whose monitor is running, once it waits for the goroutine, eventually
\* returns.
C29_StopEventuallyReturns ==
    \A c \in {"c1"} :
        (caller[c].op = "stop" /\ caller[c].pc = "stopWait" /\ caller[c].wasRunning)
            ~> (caller[c].pc = "idle")

\* C30 (specification SpecDouble): a StopChangeMonitoring called while two
\* or more goroutines of the entry were running passes Wait only when all of
\* them have returned, and when it returns no goroutine of the entry is
\* running, the wait counter is zero and the validation flag is false.
C30_OneStopJoinsAll ==
    /\ [](\A c \in DOMAIN caller :
            (caller[c].op = "stop" /\ caller[c].pc = "stopFlag" /\ caller[c].joined >= 2)
                => Running(caller[c].name) = {})
    /\ [][\A c \in DOMAIN caller :
            (/\ caller[c].op = "stop" /\ caller[c].joined >= 2
             /\ caller[c].pc = "stopFlag" /\ caller'[c].pc = "idle")
                => /\ \A t \in DOMAIN task :
                         task'[t].pc = "idle" \/ task'[t].name # caller[c].name
                   /\ waitGroup'[caller[c].name] = 0
                   /\ ~enableChangeValidation'[caller[c].name]]_vars

\* a Stop called while two goroutines of the entry were running has passed
\* Wait: both have returned
C30_Witness ==
    \E c \in DOMAIN caller :
        /\ caller[c].op = "stop" /\ caller[c].pc = "stopFlag" /\ caller[c].joined = 2
        /\ Running(caller[c].name) = {} /\ waitGroup[caller[c].name] = 0

\* the goroutines of entry n inside the locked section of checkConfigChanges
InTick(n) == {t \in DOMAIN task : task[t].name = n /\
                  task[t].pc \in {"read", "convert", "log", "sendTrack", "notify"}}

\* C31 (specification SpecTwin, the file changes once): at most one goroutine
\* of an entry is inside the locked section of checkConfigChanges; a reload
\* starts only while the stored fingerprint differs from the digest of the
\* file; and the fingerprint a tick stores is the digest of the content the
\* tick reloaded.
C31_TicksSerialized ==
    /\ [](\A n \in settings : Cardinality(InTick(n)) <= 1)
    /\ [][\A t \in DOMAIN task :
            (task[t].pc = "lock" /\ task'[t].pc = "read")
                => lastConfigHash[task[t].name] # calculateFileHash(file[task[t].name]).hash]_vars
    /\ [][\A n \in settings :
            lastConfigHash'[n] # lastConfigHash[n]
                => \E t \in InTick(n) :
                       lastConfigHash'[n] = calculateFileHash(task'[t].loaded).hash]_vars

\* C32 (specification SpecPair): once the file of "b" has changed while the
\* monitor of "b" runs with change tracking enabled, the monitor of "b"
\* eventually has stored the digest of the new content and finished the tick
\* that recorded and notified the change.
C32_MonitorsIndependent ==
    (/\ Running("b") # {} /\ enableChangeTracking["b"]
     /\ file["b"] = "M2")
        ~> (/\ lastConfigHash["b"] = calculateFileHash("M2").hash
            /\ InTick("b") = {})

\* C33: UpdateConfig never crashes the process, and when it returns the
\* entry has exactly one running monitor goroutine if it had one when
\* UpdateConfig was called, and none if it had none.
C33_UpdatePreservesMonitor ==
    /\ [][crashed' # crashed => \A c \in DOMAIN caller : caller[c].op # "update"
                                    /\ caller'[c].op # "update"]_vars
    /\ [][\A c \in DOMAIN caller :
            (caller[c].op = "update" /\ caller[c].pc = "updUnlock" /\ caller'[c].pc = "idle")
                => Cardinality({t \in DOMAIN task : task'[t].pc # "idle"
                                                     /\ task'[t].name = caller[c].name})
                       = (IF caller[c].wasRunning THEN 1 ELSE 0)]_vars

\* C34: when UpdateConfig returns without error, the stored fingerprint of
\* the entry is the digest of the content UpdateConfig wrote.
C34_UpdateStoresFingerprint ==
    [][\A c \in DOMAIN caller :
          (/\ caller[c].op = "update" /\ caller[c].pc = "updUnlock"
           /\ caller[c].err = "nil" /\ caller'[c].pc = "idle")
              => lastConfigHash'[caller[c].name] = calculateFileHash(caller[c].val).hash]_vars

----------------------------------------------------------------------------
(* Properties of the results of the public interface and of failing ticks  *)
(* (specification SpecApi).                                                *)

\* a goroutine of the monitor returns in this step
Exits(t) == task[t].pc # "idle" /\ task'[t].pc = "idle"

\* a goroutine of the monitor is spawned in this step
Spawned(t) == task[t].pc = "idle" /\ task'[t].pc # "idle"

\* C12: the public UpdateConfig(name, v) returns a non-nil error when the name
\* is unknown or the entry has no reader, and otherwise returns nil exactly
\* when the write and the confirming reload both succeeded.
C12_UpdateReturnsFailures ==
    [][\A c \in DOMAIN ret :
          /\ \A n \in Names, v \in Contents :
                 ((n \notin settings \/ Reader[n] = "nil") /\ UpdateConfig(c, n, v))
                     => ret'[c] = "err"
          /\ (caller[c].pc = "updUnlock" /\ caller'[c].pc = "idle")
                 => (ret'[c] = "nil" <=> caller[c].err = "nil")]_vars

\* C13: the process never ends inside a poll tick, and a monitor goroutine
\* returns only when the context of its entry has been cancelled.
C13_ExitOnlyOnCancel ==
    /\ [](crashed # "checkConfigChanges")
    /\ [][\A t \in Tasks : Exits(t) => ctx[task[t].name] = "cancelled"]_vars

\* C14 (specification SpecQuiet): a tick whose probed fingerprint equals the
\* stored one goes straight to the inter-tick sleep and changes neither the
\* typed target, the snapshot, the stored fingerprint nor the change log; and
\* as long as no file is modified after its registration, no tick reloads,
\* no notification is sent and every change log stays empty.
C14_UnchangedTickIsNoOp ==
    /\ [][\A t \in Tasks :
            (/\ task[t].pc = "lock" /\ task'[t] # task[t]
             /\ task[t].hash = lastConfigHash[task[t].name])
                => /\ task'[t].pc = "sleep" /\ task'[t].sent = 0
                   /\ UNCHANGED <<target, configMAP, lastConfigHash, changeLogs, mu,
                                  logMutex>>]_vars
    /\ [](/\ \A n \in Names : changeLogs[n] = << >>
          /\ \A t \in Tasks :
                /\ task[t].pc \notin {"read", "convert", "log", "sendTrack", "notify"}
                /\ task[t].sent = 0)

\* configuration "a" was registered over content M2 with tracking enabled; a
\* tick of its monitor has found the fingerprint unchanged and sleeps
C14_Witness ==
    \E t \in Tasks :
        /\ task[t].pc = "sleep" /\ task[t].name = "a" /\ "a" \in configs
        /\ enableChangeValidation["a"] /\ enableChangeTracking["a"]
        /\ lastConfigHash["a"] = calculateFileHash("M2").hash
        /\ file["a"] = "M2" /\ changeLogs["a"] = << >>

\* C15: while a tick is reloading and has not stored yet, the stored
\* fingerprint still differs from the probed one; and a tick that ends because
\* ReadConfig or the conversion to a mapping failed leaves the stored
\* fingerprint and the stored snapshot as they were.
C15_FailedReloadKeepsFingerprint ==
    /\ [](\A t \in Tasks :
            task[t].pc \in {"read", "convert", "log", "sendTrack"}
                => lastConfigHash[task[t].name] # task[t].hash)
    /\ [][\A t \in Tasks :
            (task[t].pc \in {"read", "sendTrack"} /\ task'[t].pc = "backoff")
                => /\ lastConfigHash'[task[t].name] = lastConfigHash[task[t].name]
                   /\ configMAP'[task[t].name] = configMAP[task[t].name]]_vars

\* a tracked tick whose conversion failed has gone to the back-off while the
\* file holds new parsable content: the stored fingerprint is still the old one
C15_Witness ==
    \E t \in Tasks :
        /\ task[t].pc = "backoff" /\ task[t].name = "a"
        /\ enableChangeTracking["a"]
        /\ changeLogs["a"] = <<ConfigChangeLog("a", "a", Num(1), Nil)>>
        /\ file["a"] = "M2" /\ lastConfigHash["a"] = calculateFileHash("M1").hash

\* C16: every spawn of a monitor goroutine (by StartChangeMonitoring, called
\* by the application or deferred by UpdateConfig) leaves the entry with a
\* context that is not cancelled and with the validation flag set; a goroutine
\* returns only on a cancelled context; and when StopChangeMonitoring
\* returns the validation flag is false.
C16_FreshHandleOnStart ==
    /\ [][\A t \in Tasks :
            Spawned(t) => /\ ctx'[task'[t].name] = "live"
                          /\ enableChangeValidation'[task'[t].name]]_vars
    /\ [][\A t \in Tasks : Exits(t) => ctx[task[t].name] = "cancelled"]_vars
    /\ [][\A c \in DOMAIN caller :
            (caller[c].pc = "stopFlag" /\ caller'[c].pc # "stopFlag")
                => ~enableChangeValidation'[caller[c].name]]_vars

\* Start, Stop, Start: UpdateConfig found a running goroutine, stopped and
\* joined it and has run its deferred StartChangeMonitoring; the goroutine of
\* the second Start has passed the select of the loop and is in a tick
C16_Witness ==
    \E c \in DOMAIN caller, t \in Tasks :
        /\ caller[c].op = "update" /\ caller[c].pc = "updUnlock" /\ caller[c].wasRunning
        /\ task[t].name = caller[c].name /\ task[t].pc = "lock"
        /\ ctx[caller[c].name] = "live" /\ enableChangeValidation[caller[c].name]

\* C17: StartChangeMonitoring(name, v) with a name that has no entry returns
\* an error, spawns no goroutine and changes no flag, context or wait counter.
C17_StartUnknownFails ==
    [][\A c \in DOMAIN ret, n \in Names :
          (n \notin settings /\ StartChangeMonitoring(c, n))
              => /\ ret'[c] = "err"
                 /\ UNCHANGED <<task, enableChangeValidation, ctx, waitGroup, settings,
                                configs>>]_vars

\* StartChangeMonitoring was called while nothing had an entry, and returned
\* an error
C17_Witness ==
    settings = {} /\ ret["c1"] = "err" /\ \A t \in Tasks : task[t].pc = "idle"

\* C18: AddConfig with a name the manager already holds returns an error and
\* leaves the entry, its goroutines, its typed target, the registry and the
\* change log unchanged.
C18_DuplicateAddConfigFails ==
    [][\A c \in DOMAIN ret, n \in Names, ty \in TypeTags :
          (n \in configs /\ AddConfig(c, n, ty))
              => /\ ret'[c] = "err"
                 /\ EntryState(n)' = EntryState(n)
                 /\ UNCHANGED <<Reader, changeLogs, task, configs, settings>>]_vars

\* the second AddConfig of a registered name has returned an error; the
\* monitor of the entry is running and its change log holds a record
C18_Witness ==
    /\ "a" \in configs /\ ret["c1"] = "err"
    /\ Running("a") # {} /\ changeLogs["a"] # << >>

\* C19: AddConfig of a new name with a format tag that selects no reader
\* returns an error and registers no entry.
C19_UnknownTagFails ==
    [][\A c \in DOMAIN ret, n \in Names, ty \in TypeTags :
          (n \notin configs /\ checkReader(ty) = "nil" /\ AddConfig(c, n, ty))
              => (ret'[c] = "err" /\ n \notin configs')]_vars

----------------------------------------------------------------------------
(* Properties of the differ (specification SpecDiff).                      *)

RecordsOf(seq) == {seq[i] : i \in 1..Len(seq)}

\* the reference diff of two mappings, as a set of records
ReferenceDiff(name, old, new) ==
    {ConfigChangeLog(name, k, old[k], Nil) : k \in DOMAIN old \ DOMAIN new}
    \cup {ConfigChangeLog(name, k, old[k], new[k]) :
             k \in {j \in DOMAIN old \cap DOMAIN new : old[j] # new[j]}}
    \cup {ConfigChangeLog(name, k, Nil, new[k]) : k \in DOMAIN new \ DOMAIN old}

\* C7: compareFields on two mappings returns no error and appends exactly the
\* records of the reference diff, each once and each carrying the name passed in:
\* a removal (k, old[k], nil) per key only in old, a change (k, old[k], new[k])
\* per common key with unequal values, an addition (k, nil, new[k]) per key only
\* in new, and nothing else.
C7_DiffMatchesReference ==
    (dRet # "none" /\ IsMapType(dOld) /\ IsMapType(dNew)) =>
        /\ dRet = "nil"
        /\ RecordsOf(dChanges) = ReferenceDiff(DiffName, dOld.m, dNew.m)
        /\ Len(dChanges) = Cardinality(ReferenceDiff(DiffName, dOld.m, dNew.m))
        /\ \A i \in 1..Len(dChanges) : dChanges[i].ConfigName = DiffName

\* the example of the specification: old = {a:1, b:2}, new = {a:1, b:3, c:4}
C7_Witness ==
    /\ dRet = "nil"
    /\ dOld = MapVal([k \in {"a", "b"} |-> IF k = "a" THEN Num(1) ELSE Num(2)])
    /\ dNew = MapVal([k \in {"a", "b", "c"} |->
                         IF k = "a" THEN Num(1) ELSE IF k = "b" THEN Num(3) ELSE Num(4)])
    /\ dChanges = <<ConfigChangeLog(DiffName, "b", Num(2), Num(3)),
                    ConfigChangeLog(DiffName, "c", Nil, Num(4))>>

\* the outcome for key k of diffing old against new
Outcome(k, old, new) ==
    IF k \in DOMAIN old /\ k \in DOMAIN new THEN "changed"
    ELSE IF k \in DOMAIN old THEN "removed" ELSE "added"

\* the outcome read off the null pattern of a record
OutcomeOfRecord(r) ==
    IF r.OldValue # Nil /\ r.NewValue # Nil THEN "changed"
    ELSE IF r.OldValue # Nil THEN "removed"
    ELSE IF r.NewValue # Nil THEN "added" ELSE "unknown"

\* C23: for every record compareFields produces, the outcome read off
\* (OldValue, NewValue) is the outcome of the record's key.
C23_OutcomesDistinguishable ==
    (dRet = "nil" /\ IsMapType(dOld) /\ IsMapType(dNew)) =>
        \A i \in 1..Len(dChanges) :
            OutcomeOfRecord(dChanges[i]) = Outcome(dChanges[i].FieldName, dOld.m, dNew.m)

\* C28: in the list produced by one call of compareFields no addition record
\* comes before a removal record or a changed record.
C28_AdditionsLast ==
    (dRet = "nil" /\ IsMapType(dOld) /\ IsMapType(dNew)) =>
        \A i, j \in 1..Len(dChanges) :
            (/\ Outcome(dChanges[i].FieldName, dOld.m, dNew.m) = "added"
             /\ Outcome(dChanges[j].FieldName, dOld.m, dNew.m) # "added") => j < i

\* old = {a:1, b:2}, new = {b:3, c:4}: the removal of a and the change of b,
\* in either order, then the addition of c
C28_Witness ==
    /\ dRet = "nil"
    /\ dOld = MapVal([k \in {"a", "b"} |-> IF k = "a" THEN Num(1) ELSE Num(2)])
    /\ dNew = MapVal([k \in {"b", "c"} |-> IF k = "b" THEN Num(3) ELSE Num(4)])
    /\ Len(dChanges) = 3
    /\ dChanges[1] = ConfigChangeLog(DiffName, "b", Num(2), Num(3))
    /\ dChanges[2] = ConfigChangeLog(DiffName, "a", Num(1), Nil)
    /\ dChanges[3] = ConfigChangeLog(DiffName, "c", Nil, Num(4))

\* C8: compareFields on a mapping and a deeply equal copy of it appends no
\* record and returns no error.
C8_NoOpDiff ==
    (dRet # "none" /\ IsMapType(dOld) /\ IsMapType(dNew) /\ dOld.m = dNew.m) =>
        (dChanges = << >> /\ dRet = "nil")

\* a three-key mapping holding a number, a list and a null, diffed with itself
C8_Witness ==
    /\ dRet = "nil"
    /\ dNew = dOld
    /\ dOld = MapVal([k \in {"a", "b", "c"} |->
                         IF k = "a" THEN Num(1) ELSE IF k = "b" THEN List(<<1>>) ELSE Nil])
    /\ dChanges = << >>

----------------------------------------------------------------------------
(* Properties of reader selection (specification SpecTag) and of the       *)
(* fingerprint (specification SpecHash).                                   *)

\* C25: checkReader selects the reader of the format for every upper/lower-
\* case spelling of a tag of the vocabulary and of its managed variant, and
\* no reader for every other tag.
C25_ReaderSelection ==
    dReader # "none" =>
        IF \E t \in Vocabulary : dTag \in Spellings(t) \cup Spellings(Mk(t))
        THEN \A t \in Vocabulary :
                 dTag \in Spellings(t) \cup Spellings(Mk(t)) => dReader = FormatOf(t)
        ELSE dReader = "nil"

\* the tag ".Mk.YAML" has selected the YAML reader
C25_Witness ==
    dTag = <<".", "M", "k", ".", "Y", "A", "M", "L">> /\ dReader = "yaml"

C35_FailedAddConfigChangesNothing ==
    [][\A c \in DOMAIN ret, n \in Names, ty \in TypeTags :
          (AddConfig(c, n, ty) /\ ret'[c] = "err")
              => UNCHANGED <<settings, configs, changeLogs>>]_vars

\* C36: a tick whose conversion to a mapping failed appends nothing to the
\* change log, and no listener receives a signal from it.
C36_FailedTickIsSilent ==
    /\ [][\A t \in Tasks :
            (task[t].converr /\ TaskLog(t)) => changeLogs' = changeLogs]_vars
    /\ [][\A t \in Tasks : RecvLogSignal(t) => ~task[t].converr]_vars

\* the stored fingerprint of n is the digest of its file and no goroutine of
\* n is reloading, logging or notifying
Settled(n) ==
    /\ lastConfigHash[n] = calculateFileHash(file[n]).hash
    /\ InTick(n) = {}

\* C37 (specification SpecSettle): once the file holds its final, parsable
\* content while the monitor runs, the stored fingerprint eventually equals
\* the digest of that content for ever, and from then on no tick reloads,
\* logs or notifies.
C37_Convergence ==
    (file["a"] = "M2" /\ Running("a") # {}) ~> [](Settled("a") /\ file["a"] = "M2")

\* the file went through all its contents while the monitor was running, a
\* tick stored a stale fingerprint on the way, and the entry has settled on
\* the final content with a change record in the log
C37_Witness ==
    /\ Running("a") # {} /\ Settled("a") /\ file["a"] = "M2"
    /\ target["a"] = "M2" /\ changeLogs["a"] # << >>

\* C38: the old side of compareFields is the stored snapshot, which only a
\* registration and the store of a successful reload write; every successful
\* reload, with change tracking enabled or not, stores as snapshot the
\* mapping of the content it reloaded, so that the next diff is taken against
\* that content.
C38_OldSideIsLastReload ==
    [][\A t \in Tasks :
          (task[t].pc \in {"read", "sendTrack"} /\ task'[t].pc = "notify")
              => configMAP'[task[t].name]
                     = convertToMap(Reader[task[t].name], task'[t].loaded).m]_vars

\* the number of running monitor goroutines of entry n after the step
RunningAfter(n) == Cardinality({t \in DOMAIN task : task'[t].pc # "idle" /\ task'[t].name = n})

\* C39 (specification SpecBulk): StartAllChangeMonitoring leaves every entry
\* with exactly one running monitor goroutine; when StopAllChangeMonitoring
\* returns no entry has a running monitor goroutine; and whenever the
\* application thread is outside every call, the validation flag of an entry
\* is true exactly when the entry has a running monitor goroutine.
C39_BulkLifecycle ==
    /\ [][\A c \in DOMAIN caller :
            StartAllChangeMonitoring(c) => \A n \in settings : RunningAfter(n) = 1]_vars
    /\ [][\A c \in DOMAIN caller :
            (caller[c].op = "stopAll" /\ caller'[c].pc = "idle")
                => \A n \in settings : RunningAfter(n) = 0]_vars
    /\ []((\A c \in DOMAIN caller : caller[c].pc = "idle")
            => \A n \in settings : enableChangeValidation[n] <=> (Running(n) # {}))

\* C40 (specification SpecChan): GetLogChanges(name) of a registered name
\* whose validation flag is true returns a map that holds the tracking
\* channel of that name.
C40_GetLogChangesFindsName ==
    [][\A c \in DOMAIN ret, n \in Names :
          (n \in settings /\ enableChangeValidation[n] /\ GetLogChanges(c, n))
              => ret'[c] = ChanMapOf(n)]_vars

====
